---- MODULE Spec2Model ----
(***************************************************************************)
(* Model of the reference-validator "compare" command: ingestion of two    *)
(* sets of resource documents, the whole-set short circuit, the exact and  *)
(* fuzzy key matching phases, the all-pairs diff and the final report.     *)
(*                                                                         *)
(* Strings are sequences of one-character strings, so that the key string  *)
(* form, its parser and the edit distance are computed as the code         *)
(* computes them.  A file's text is a sequence of <<field, value>> entries *)
(* in the order they are written; a document is the map parsed from it.    *)
(***************************************************************************)
EXTENDS Integers, Sequences, FiniteSets, TLC

\* ---------------------------------------------------------------- bounds
\* most files a directory tree holds on one side of a comparison
MaxFiles == 2

\* most documents an ingested list holds when the matching is studied alone
MaxDocs == 2

\* ---------------------------------------------------------------- strings
Empty == << >>

\* kinds and API versions the code names (abbreviated spellings)
Policy == <<"P", "o", "l">>
Secret == <<"S", "e", "c">>
Namespace == <<"N", "s">>
MachineConfigPool == <<"M", "c", "p">>
ServiceAccount == <<"S", "a">>
Node == <<"N", "o">>
PlacementBinding == <<"P", "b">>
PlacementRule == <<"P", "r">>
RbacV1 == <<"r", "b", "/", "v", "1">>
SccSecurity == <<"S", "c", "c", "-", "s">>
ConfigV1 == <<"c", "f", "/", "v", "1">>
SecurityV1 == <<"s", "e", "/", "v", "1">>
SriovFecV2 == <<"f", "e", "/", "v", "2">>
V1 == <<"v", "1">>

\* kinds and names of the documents under comparison
Ka == <<"K", "a">>
Kb == <<"K", "b">>
NameA == <<"a">>
NameAB == <<"a", "b">>
NameFar == <<"v", "w", "x", "y", "z">>
NameUnder == <<"a", "_", "b">>

Min2(a, b) == IF a <= b THEN a ELSE b

Max2(a, b) == IF a >= b THEN a ELSE b

\* strings.Index: first position of character c in s, 0 when absent
IndexOf(s, c) ==
    IF \E i \in 1..Len(s) : s[i] = c
    THEN CHOOSE i \in 1..Len(s) : s[i] = c /\ \A j \in 1..(i - 1) : s[j] # c
    ELSE 0

\* strings.LastIndex: last position of character c in s, 0 when absent
LastIndexOf(s, c) ==
    IF \E i \in 1..Len(s) : s[i] = c
    THEN CHOOSE i \in 1..Len(s) : s[i] = c /\ \A j \in (i + 1)..Len(s) : s[j] # c
    ELSE 0

\* strings.ReplaceAll(s, ":", "__")
RECURSIVE ColonToUnderscores(_)
ColonToUnderscores(s) ==
    IF s = << >> THEN << >>
    ELSE IF Head(s) = ":" THEN <<"_", "_">> \o ColonToUnderscores(Tail(s))
    ELSE <<Head(s)>> \o ColonToUnderscores(Tail(s))

\* strings.ReplaceAll(s, "__", ":"), scanning left to right
RECURSIVE UnderscoresToColon(_)
UnderscoresToColon(s) ==
    IF s = << >> THEN << >>
    ELSE IF Len(s) >= 2 /\ s[1] = "_" /\ s[2] = "_"
         THEN <<":">> \o UnderscoresToColon(SubSeq(s, 3, Len(s)))
    ELSE <<Head(s)>> \o UnderscoresToColon(Tail(s))

\* ---------------------------------------------------------------- documents
\* the fields of a document, in the order a marshaller writes a map's keys
FieldOrder == <<"apiVersion", "kind", "list", "name", "spec", "templates">>

\* yaml.Unmarshal into a map: a mapping key written twice is a parse error
ParseFails(text) ==
    \E i, j \in 1..Len(text) : i # j /\ text[i][1] = text[j][1]

\* the map a text parses to (the order of the entries is not kept)
ParseMap(text) ==
    [f \in {text[i][1] : i \in 1..Len(text)} |->
        text[CHOOSE i \in 1..Len(text) : text[i][1] = f][2]]

\* the entries of a map written in sorted key order
RECURSIVE SortedFrom(_, _)
SortedFrom(doc, i) ==
    IF i > Len(FieldOrder) THEN << >>
    ELSE (IF FieldOrder[i] \in DOMAIN doc
          THEN << <<FieldOrder[i], doc[FieldOrder[i]]>> >>
          ELSE << >>) \o SortedFrom(doc, i + 1)

\* Unstructured.MarshalJSON: the canonical serialisation of a document
MarshalJSON(doc) == SortedFrom(doc, 1)

\* (mutant: a marshaller that leaves the list fields out)
yamlMarshalNoLists(doc) == SortedFrom([x \in DOMAIN doc \ {"list"} |-> doc[x]], 1)

\* yaml.Marshal of the document's content
yamlMarshal(doc) == SortedFrom(doc, 1)

GetField(doc, f) == IF f \in DOMAIN doc THEN doc[f] ELSE Empty

GetKind(doc) == GetField(doc, "kind")

GetName(doc) == GetField(doc, "name")

GetAPIVersion(doc) == GetField(doc, "apiVersion")

\* schema.ParseGroupVersion: the group is what precedes the single "/"
GroupOf(apiVersion) ==
    LET n == Cardinality({i \in 1..Len(apiVersion) : apiVersion[i] = "/"})
    IN IF n = 1 /\ Len(apiVersion) > 1
       THEN SubSeq(apiVersion, 1, IndexOf(apiVersion, "/") - 1)
       ELSE Empty

\* when the API version does not parse the whole GroupVersionKind is empty
KindOf(doc) ==
    LET v == GetAPIVersion(doc)
        n == Cardinality({i \in 1..Len(v) : v[i] = "/"})
    IN IF n > 1 THEN Empty ELSE GetKind(doc)

\* ---------------------------------------------------------------- identity keys
NilObjMetadata == [Namespace |-> Empty, Name |-> Empty, Group |-> Empty, Kind |-> Empty]

unstructuredToObjMeta(doc) ==
    [Namespace |-> Empty, Name |-> GetName(doc),
     Group |-> GroupOf(GetAPIVersion(doc)), Kind |-> KindOf(doc)]

\* ObjMetadata.String: namespace_name_group_kind, a colon of the name as "__"
KeyString(k) ==
    k.Namespace \o <<"_">> \o ColonToUnderscores(k.Name) \o <<"_">>
        \o k.Group \o <<"_">> \o k.Kind

\* object.ParseObjMetadata; the caller drops the error and keeps the nil key
ParseObjMetadata(s) ==
    LET i1 == IndexOf(s, "_")
        s1 == SubSeq(s, i1 + 1, Len(s))
        i2 == LastIndexOf(s1, "_")
        s2 == SubSeq(s1, 1, i2 - 1)
        i3 == LastIndexOf(s2, "_")
        name == UnderscoresToColon(SubSeq(s2, 1, i3 - 1))
    IN IF i1 = 0 \/ i2 = 0 \/ i3 = 0 THEN NilObjMetadata
       ELSE IF IndexOf(name, "_") # 0 THEN NilObjMetadata
       ELSE [Namespace |-> SubSeq(s, 1, i1 - 1), Name |-> name,
             Group |-> SubSeq(s2, i3 + 1, Len(s2)),
             Kind |-> SubSeq(s1, i2 + 1, Len(s1))]

\* ---------------------------------------------------------------- fuzzy key search
threshold2 == 2

\* next row of the edit-distance table: acc holds the entries 0..j-1 of the row
RECURSIVE RowFrom(_, _, _, _, _)
RowFrom(prev, c, b, j, acc) ==
    IF j > Len(b) THEN acc
    ELSE LET cell == Min2(Min2(acc[j] + 1, prev[j + 1] + 1),
                          prev[j] + (IF c = b[j] THEN 0 ELSE 1))
         IN IF cell >= 0 THEN RowFrom(prev, c, b, j + 1, Append(acc, cell)) ELSE acc

RECURSIVE LevFrom(_, _, _, _)
LevFrom(prev, a, b, i) ==
    IF i > Len(a) THEN prev[Len(b) + 1]
    ELSE LET row == RowFrom(prev, a[i], b, 1, <<prev[1] + 1>>)
         IN IF Len(row) > 0 THEN LevFrom(row, a, b, i + 1) ELSE 0

\* edlib.LevenshteinDistance
LevenshteinDistance(a, b) == LevFrom([j \in 1..(Len(b) + 1) |-> j - 1], a, b, 1)

\* edlib's similarity is (m - distance) / m with m the longer length; it is kept
\* as the pair <<m - distance, m>> and compared by cross multiplication
SimNum(a, b) == Max2(Len(a), Len(b)) - LevenshteinDistance(a, b)

SimDen(a, b) == Max2(Len(a), Len(b))

\* similarity >= 0.5
ClearsThreshold(a, b) == threshold2 * SimNum(a, b) >= SimDen(a, b)

\* similarity(a, b) >= similarity(a, c)
SimGeq(a, b, c) == SimNum(a, b) * SimDen(a, c) >= SimNum(a, c) * SimDen(a, b)

\* edlib.FuzzySearchSetThreshold keeps the best-ranked strings that clear the
\* threshold, best first, and pads the result with empty strings; the strings
\* its first entry can be (the order among equal similarities is not fixed)
FuzzySearchTop(matchWith, allKeysString) ==
    LET passing == {s \in allKeysString : ClearsThreshold(matchWith, s)}
    IN IF passing = {} THEN {Empty}
       ELSE {s \in passing : \A t \in passing : SimGeq(matchWith, s, t)}

\* the keys findFuzzyMatch(key, refMap) can return
findFuzzyMatch(key, refMap) ==
    {ParseObjMetadata(s) :
        s \in FuzzySearchTop(KeyString(key), {KeyString(k) : k \in DOMAIN refMap})}

\* ---------------------------------------------------------------- ingestion helpers
\* runtime.DefaultUnstructuredConverter.FromUnstructured into a typed Policy
\* fails when spec is a scalar instead of an object
PolicyConverts(doc) == "spec" \notin DOMAIN doc

\* the object templates of one configuration policy that unmarshal
RECURSIVE ObjectsOf(_)
ObjectsOf(objs) ==
    IF objs = << >> THEN << >>
    ELSE (IF Head(objs).ok /\ ~ParseFails(Head(objs).raw)
          THEN <<ParseMap(Head(objs).raw)>> ELSE << >>) \o ObjectsOf(Tail(objs))

\* (mutant: a policy template that does not convert is kept all the same)
getConfigurationPolicyAll(templates) == templates

\* getConfigurationPolicy: the policy templates that convert
RECURSIVE getConfigurationPolicy(_)
getConfigurationPolicy(templates) ==
    IF templates = << >> THEN << >>
    ELSE (IF Head(templates).ok THEN <<Head(templates)>> ELSE << >>)
             \o getConfigurationPolicy(Tail(templates))

RECURSIVE ObjectsOfAll(_)
ObjectsOfAll(cPolicies) ==
    IF cPolicies = << >> THEN << >>
    ELSE ObjectsOf(Head(cPolicies).objs) \o ObjectsOfAll(Tail(cPolicies))

getObjectTemplates(policy) ==
    ObjectsOfAll(getConfigurationPolicy(
        IF "templates" \in DOMAIN policy THEN policy.templates ELSE << >>))

\* (mutant: the policy itself is handed on together with its objects)
getResourcesWithPolicy(doc) ==
    IF GetKind(doc) = Policy
    THEN (IF PolicyConverts(doc) THEN <<doc>> \o getObjectTemplates(doc) ELSE << >>)
    ELSE <<doc>>

getResourcesFromPolicyIfAny(doc) ==
    IF GetKind(doc) = Policy
    THEN (IF PolicyConverts(doc) THEN getObjectTemplates(doc) ELSE << >>)
    ELSE <<doc>>

Excluded(doc) ==
    \/ GetAPIVersion(doc) \in {RbacV1, SccSecurity, ConfigV1, SecurityV1, SriovFecV2}
    \/ KindOf(doc) \in {Secret, Namespace, MachineConfigPool, ServiceAccount,
                        Node, PlacementBinding, PlacementRule}

\* (mutant: a filter that lets every document through)
removeResourcesKeepAll(uList) == uList

RECURSIVE removeResourcesWeDontWantToProcess(_)
removeResourcesWeDontWantToProcess(uList) ==
    IF uList = << >> THEN << >>
    ELSE (IF Excluded(Head(uList)) THEN << >> ELSE <<Head(uList)>>)
             \o removeResourcesWeDontWantToProcess(Tail(uList))

\* (mutant: a document seen again moves the index to the later file)
RECURSIVE removeDuplicatesLastPath(_, _, _)
removeDuplicatesLastPath(uList, index, curFile) ==
    IF uList = << >> THEN <<(<< >>), index>>
    ELSE LET key == MarshalJSON(Head(uList))
             rest == removeDuplicatesLastPath(Tail(uList),
                         [c \in DOMAIN index \cup {key} |->
                             IF c = key THEN curFile ELSE index[c]],
                         curFile)
         IN IF key \in DOMAIN index THEN rest
            ELSE <<(<<Head(uList)>> \o rest[1]), rest[2]>>

\* removeDuplicates: the pair <<documents kept, dedup index afterwards>>
RECURSIVE removeDuplicates(_, _, _)
removeDuplicates(uList, index, curFile) ==
    IF uList = << >> THEN <<(<< >>), index>>
    ELSE LET key == MarshalJSON(Head(uList))
         IN IF key \in DOMAIN index
            THEN removeDuplicates(Tail(uList), index, curFile)
            ELSE LET rest == removeDuplicates(Tail(uList),
                                 [c \in DOMAIN index \cup {key} |->
                                     IF c = key THEN curFile ELSE index[c]],
                                 curFile)
                 IN <<(<<Head(uList)>> \o rest[1]), rest[2]>>

\* ---------------------------------------------------------------- indexing and comparison
\* (mutant: a later document of a key takes the place of the earlier one)
RECURSIVE getObjectMetaMapOverwrite(_)
getObjectMetaMapOverwrite(uList) ==
    IF uList = << >> THEN [k \in {} |-> << >>]
    ELSE LET n == Len(uList)
             m == getObjectMetaMapOverwrite(SubSeq(uList, 1, n - 1))
             key == unstructuredToObjMeta(uList[n])
         IN [k \in DOMAIN m \cup {key} |-> IF k = key THEN <<uList[n]>> ELSE m[k]]

RECURSIVE getObjectMetaMap(_)
getObjectMetaMap(uList) ==
    IF uList = << >> THEN [k \in {} |-> << >>]
    ELSE LET n == Len(uList)
             m == getObjectMetaMap(SubSeq(uList, 1, n - 1))
             key == unstructuredToObjMeta(uList[n])
         IN [k \in DOMAIN m \cup {key} |->
                IF k = key
                THEN (IF key \in DOMAIN m THEN m[key] ELSE << >>) \o <<uList[n]>>
                ELSE m[k]]

Range(s) == {s[i] : i \in 1..Len(s)}

\* (mutant: the lists compared entry by entry, in order)
contentExactMatchOrdered(setA, setB) ==
    /\ Len(setA) = Len(setB)
    /\ \A i \in 1..Len(setA) : MarshalJSON(setA[i]) = MarshalJSON(setB[i])

\* (mutant: a check that never finds the two lists equal)
contentExactMatchNever(setA, setB) == FALSE

\* contentExactMatch: both lists become maps keyed by serialisation; the maps
\* must have the same size and every key of the second must be in the first
contentExactMatch(setA, setB) ==
    LET mapA == {MarshalJSON(d) : d \in Range(setA)}
        mapB == {MarshalJSON(d) : d \in Range(setB)}
    IN /\ Cardinality(mapA) = Cardinality(mapB)
       /\ \A b \in mapB : b \in mapA

\* o.Diff, the external program behind DiffProgram.Run: "diff" compares the
\* two files, "false" exits with status 1 without comparing anything, and
\* "missing" cannot be started
VARIABLE Diff

DiffPrograms == {"diff", "false", "missing"}

\* DiffProgram.Run on the two scratch files: the error of running the program,
\* nil when it ran and the texts are the same
DiffRun(resText, refText) ==
    IF Diff = "missing" THEN "executable file not found"
    ELSE IF Diff = "false" THEN "exit status 1"
    ELSE IF resText = refText THEN "nil" ELSE "exit status 1"

\* diffUnstructured: both documents are written as YAML and diffed
diffUnstructured(res, ref) ==
    [res |-> res, ref |-> ref, prog |-> Diff,
     err |-> DiffRun(yamlMarshal(res), yamlMarshal(ref))]

RECURSIVE DiffOne(_, _)
DiffOne(res, references) ==
    IF references = << >> THEN << >>
    ELSE <<diffUnstructured(res, Head(references))>> \o DiffOne(res, Tail(references))

\* (mutant: only the first pair of a group is compared)
exhaustiveDiffFirstPair(resources, references) ==
    IF resources = << >> \/ references = << >> THEN << >>
    ELSE <<diffUnstructured(Head(resources), Head(references))>>

\* exhaustiveDiff: every resource against every reference, resources outermost
RECURSIVE exhaustiveDiff(_, _)
exhaustiveDiff(resources, references) ==
    IF resources = << >> THEN << >>
    ELSE DiffOne(Head(resources), references) \o exhaustiveDiff(Tail(resources), references)

intersectionOfSources(mapA, mapB) == DOMAIN mapA \cap DOMAIN mapB

\* delete(m, key)
Delete(m, key) == [k \in DOMAIN m \ {key} |-> m[k]]

\* ---------------------------------------------------------------- files
F(text) == [readable |-> TRUE, text |-> text]

Entry(f, v) == <<f, v>>

\* kind Ka, name "a", list [1, 2]
TextA == <<Entry("apiVersion", V1), Entry("kind", Ka), Entry("name", NameA),
           Entry("list", <<1, 2>>)>>

\* the same document with its keys written in another order
TextAReordered == <<Entry("apiVersion", V1), Entry("kind", Ka),
                    Entry("list", <<1, 2>>), Entry("name", NameA)>>

\* the same identity with another list entry
TextAOther == <<Entry("apiVersion", V1), Entry("kind", Ka), Entry("name", NameA),
                Entry("list", <<1, 5>>)>>

\* a name one edit away
TextAB == <<Entry("apiVersion", V1), Entry("kind", Ka), Entry("name", NameAB)>>

\* another kind and a distant name
TextFar == <<Entry("apiVersion", V1), Entry("kind", Kb), Entry("name", NameFar)>>

\* a mapping key written twice does not parse
TextBroken == <<Entry("kind", Ka), Entry("kind", Kb)>>

\* kind Secret is on the exclusion list
TextSecret == <<Entry("apiVersion", V1), Entry("kind", Secret), Entry("name", NameA)>>

\* so is this API version
TextRbac == <<Entry("apiVersion", RbacV1), Entry("kind", Ka), Entry("name", NameA)>>

\* a policy with one policy template holding two object templates
TextPolicy ==
    <<Entry("kind", Policy),
      Entry("templates",
            <<[ok |-> TRUE, objs |-> <<[ok |-> TRUE, raw |-> TextA],
                                       [ok |-> TRUE, raw |-> TextSecret]>>]>>)>>

\* a policy whose first policy template and one object template do not convert
TextPolicyPartial ==
    <<Entry("kind", Policy),
      Entry("templates",
            <<[ok |-> FALSE, objs |-> <<[ok |-> TRUE, raw |-> TextAB]>>],
              [ok |-> TRUE, objs |-> <<[ok |-> FALSE, raw |-> TextFar],
                                       [ok |-> TRUE, raw |-> TextAOther],
                                       [ok |-> TRUE, raw |-> TextA]>>]>>)>>

\* a policy that does not convert to the typed Policy
TextPolicyMalformed ==
    <<Entry("kind", Policy), Entry("spec", NameA),
      Entry("templates",
            <<[ok |-> TRUE, objs |-> <<[ok |-> TRUE, raw |-> TextA]>>]>>)>>

Unreadable == [readable |-> FALSE, text |-> TextFar]

\* the files a directory of a whole run can hold
RunFiles == {F(TextA), F(TextAReordered), F(TextAOther), F(TextAB), F(TextFar),
             F(TextBroken)}

SeqsUpTo(S, n) == UNION {[1..k -> S] : k \in 0..n}

Dir(files) == [isDir |-> TRUE, files |-> files, failAt |-> 0]

NotADirectory == [isDir |-> FALSE, files |-> << >>, failAt |-> 0]

\* util.GetFileNames: the paths walked before the walk fails, if it does
GetFileNames(dir) ==
    IF dir.failAt = 0 THEN dir.files ELSE SubSeq(dir.files, 1, dir.failAt - 1)

\* yamlToUnstructured: a read error is dropped and leaves no bytes to parse;
\* a parse error gives back nil
yamlToUnstructured(file) ==
    LET yFile == IF file.readable THEN file.text ELSE << >>
    IN IF ParseFails(yFile) THEN [isNil |-> TRUE, Object |-> << >>]
       ELSE [isNil |-> FALSE, Object |-> ParseMap(yFile)]

\* ---------------------------------------------------------------- state
VARIABLES
    pc,              \* where the command is
    fs,              \* the directories given as --resource and --reference
    ExactMatchOnly,  \* the --exact-match-only flag (earlier revision)
    d,               \* readK8sResourcesFromDir: directory being read
    files,           \*   the file names of that directory
    f,               \*   next file of it to read
    removeDuplicate, \*   dedup index: serialisation -> first file path
    finalList,       \*   documents kept so far
    discovered,      \*   every document the unwrapper yielded, with its path
    uListResources, uListReference,
    eMatch,          \* result of the whole-set check
    resourcesMap, refMap,
    todo,            \* keys the running phase still has to visit
    errs,            \* outcomes the running phase has collected
    calls,           \* every call of exhaustiveDiff: phase, keys, lists, outcomes
    found,           \* every call of findFuzzyMatch: key, candidates, result
    diffRuns,        \* invocations of the external diff
    tmpDirs, tmpFiles,   \* scratch directories and files that exist
    err,             \* what run() returned
    exitCode,        \* status of an os.Exit inside run()
    runE             \* what the command's RunE returned

vars == <<pc, fs, ExactMatchOnly, Diff, d, files, f, removeDuplicate, finalList,
          discovered, uListResources, uListReference, eMatch, resourcesMap,
          refMap, todo, errs, calls, found, diffRuns, tmpDirs, tmpFiles, err, exitCode,
          runE>>

optVars == <<fs, ExactMatchOnly, Diff>>

ingestVars == <<d, files, f, removeDuplicate, finalList, discovered>>

listVars == <<uListResources, uListReference>>

matchVars == <<resourcesMap, refMap, todo, errs, calls, found, diffRuns, tmpDirs, tmpFiles>>

endVars == <<err, exitCode, runE>>

EmptyMap == [k \in {} |-> << >>]

Side == IF pc = "readResources" THEN "resource" ELSE "reference"

InitRest ==
    /\ d = 0 /\ files = << >> /\ f = 1
    /\ removeDuplicate = EmptyMap /\ finalList = << >> /\ discovered = << >>
    /\ uListResources = << >> /\ uListReference = << >>
    /\ eMatch = FALSE
    /\ resourcesMap = EmptyMap /\ refMap = EmptyMap
    /\ todo = {} /\ errs = << >> /\ calls = << >> /\ found = << >>
    /\ diffRuns = 0 /\ tmpDirs = 0 /\ tmpFiles = 0
    /\ err = "none" /\ exitCode = "none" /\ runE = "none"

RunDirs == {NotADirectory} \cup {Dir(fl) : fl \in SeqsUpTo(RunFiles, MaxFiles)}

OneDirEach ==
    [resource : {<<dir>> : dir \in RunDirs}, reference : {<<dir>> : dir \in RunDirs}]

Init ==
    /\ pc = "RunE"
    /\ fs \in OneDirEach
    /\ ExactMatchOnly = FALSE
    /\ Diff = "diff"
    /\ InitRest

\* ---------------------------------------------------------------- the command
AllDirectories ==
    \A side \in {"resource", "reference"} :
        \A i \in 1..Len(fs[side]) : fs[side][i].isDir

\* RunE: validate() refuses a path that is no directory
Validate ==
    /\ pc = "RunE"
    /\ IF AllDirectories
       THEN pc' = "readResources" /\ runE' = runE
       ELSE pc' = "done" /\ runE' = "error"
    /\ UNCHANGED <<optVars, ingestVars, listVars, eMatch, matchVars, err, exitCode>>

\* ---------------------------------------------------------------- ingestion
Reading == pc \in {"readResources", "readReference"}

\* for _, d := range curDir { files, _ := util.GetFileNames(d)
NextDir ==
    /\ Reading
    /\ f > Len(files)
    /\ d < Len(fs[Side])
    /\ d' = d + 1
    /\ files' = GetFileNames(fs[Side][d + 1])
    /\ f' = 1
    /\ UNCHANGED <<pc, optVars, removeDuplicate, finalList, discovered, listVars,
                   eMatch, matchVars, endVars>>

\* one iteration of the loop over the files of a directory
ReadFile ==
    /\ Reading
    /\ f <= Len(files)
    /\ LET curFile == <<d, f>>
           u == yamlToUnstructured(files[f])
       IN IF u.isNil
          THEN \* *u of a nil pointer
               /\ pc' = "panic"
               /\ UNCHANGED <<f, removeDuplicate, finalList, discovered>>
          ELSE LET uList == getResourcesFromPolicyIfAny(u.Object)
                   dedup == removeDuplicates(uList, removeDuplicate, curFile)
               IN /\ removeDuplicate' = dedup[2]
                  /\ finalList' = finalList
                                    \o removeResourcesWeDontWantToProcess(dedup[1])
                  /\ discovered' = discovered
                        \o [i \in 1..Len(uList) |-> [doc |-> uList[i], file |-> curFile]]
                  /\ f' = f + 1
                  /\ pc' = pc
    /\ UNCHANGED <<optVars, d, files, listVars, eMatch, matchVars, endVars>>

\* readK8sResourcesFromDir returns finalList to run()
\* ReturnList with one index for both ingestion calls
ReturnListSharedIndex ==
    /\ Reading
    /\ f > Len(files)
    /\ d = Len(fs[Side])
    /\ IF pc = "readResources"
       THEN /\ uListResources' = finalList
            /\ uListReference' = uListReference
            /\ pc' = "readReference"
       ELSE /\ uListReference' = finalList
            /\ uListResources' = uListResources
            /\ pc' = "shortCircuit"
    /\ d' = 0 /\ files' = << >> /\ f' = 1
    /\ removeDuplicate' = removeDuplicate /\ finalList' = << >> /\ discovered' = << >>
    /\ UNCHANGED <<optVars, eMatch, matchVars, endVars>>

ReturnList ==
    /\ Reading
    /\ f > Len(files)
    /\ d = Len(fs[Side])
    /\ IF pc = "readResources"
       THEN /\ uListResources' = finalList
            /\ uListReference' = uListReference
            /\ pc' = "readReference"
       ELSE /\ uListReference' = finalList
            /\ uListResources' = uListResources
            /\ pc' = "shortCircuit"
    /\ d' = 0 /\ files' = << >> /\ f' = 1
    /\ removeDuplicate' = EmptyMap /\ finalList' = << >> /\ discovered' = << >>
    /\ UNCHANGED <<optVars, eMatch, matchVars, endVars>>

\* ---------------------------------------------------------------- run(): matching
\* the short circuit, then both maps and the list of shared keys
ShortCircuit ==
    /\ pc = "shortCircuit"
    /\ eMatch' = contentExactMatch(uListResources, uListReference)
    /\ IF eMatch'
       THEN /\ pc' = "exited"
            /\ exitCode' = 0
            /\ UNCHANGED <<resourcesMap, refMap, todo>>
       ELSE /\ pc' = "keyExactMatch"
            /\ exitCode' = exitCode
            /\ resourcesMap' = getObjectMetaMap(uListResources)
            /\ refMap' = getObjectMetaMap(uListReference)
            /\ todo' = intersectionOfSources(getObjectMetaMap(uListResources),
                                             getObjectMetaMap(uListReference))
    /\ UNCHANGED <<optVars, ingestVars, listVars, errs, calls, found, diffRuns, tmpDirs,
                   tmpFiles, err, runE>>

\* what a call of exhaustiveDiff leaves behind: unstructuredToYaml makes a
\* directory and a file in it per document; RemoveAll is given the file
\* the pair of positions (resource, reference) the i-th iteration of the two
\* nested loops is at, for n references
PairAt(i, n) == <<((i - 1) \div n) + 1, ((i - 1) % n) + 1>>

\* `runs' lists the pairs the diff program was started on, in order
Compare(phase, key, refKey) ==
    LET out == exhaustiveDiff(resourcesMap[key], refMap[refKey])
    IN /\ errs' = errs \o out
       /\ calls' = Append(calls, [phase |-> phase, key |-> key, refKey |-> refKey,
                                  resources |-> resourcesMap[key],
                                  references |-> refMap[refKey], out |-> out,
                                  runs |-> [i \in 1..Len(out) |->
                                               PairAt(i, Len(refMap[refKey]))]])
       /\ diffRuns' = diffRuns + Len(out)
       /\ tmpDirs' = tmpDirs + 2 * Len(out)
       /\ tmpFiles' = tmpFiles

\* (mutant: the shared key is taken out of the resource map only)
KeyExactMatchKeepsReference ==
    /\ pc = "keyExactMatch"
    /\ \E iSrc \in todo :
          /\ Compare("exact", iSrc, iSrc)
          /\ resourcesMap' = Delete(resourcesMap, iSrc)
          /\ refMap' = refMap
          /\ todo' = todo \ {iSrc}
          /\ found' = found
    /\ UNCHANGED <<pc, optVars, ingestVars, listVars, eMatch, endVars>>

\* keyExactMatch: one iteration over the shared keys
KeyExactMatch ==
    /\ pc = "keyExactMatch"
    /\ \E iSrc \in todo :
          /\ Compare("exact", iSrc, iSrc)
          /\ resourcesMap' = Delete(resourcesMap, iSrc)
          /\ refMap' = Delete(refMap, iSrc)
          /\ todo' = todo \ {iSrc}
          /\ found' = found
    /\ UNCHANGED <<pc, optVars, ingestVars, listVars, eMatch, endVars>>

\* keyExactMatch returns; keyPartialMatch starts to range over the resource map
ExactDone ==
    /\ pc = "keyExactMatch"
    /\ todo = {}
    /\ pc' = "keyPartialMatch"
    /\ todo' = DOMAIN resourcesMap
    /\ errs' = << >>
    /\ UNCHANGED <<optVars, ingestVars, listVars, eMatch, resourcesMap, refMap,
                   calls, found, diffRuns, tmpDirs, tmpFiles, endVars>>

\* keyPartialMatch: one iteration over the keys left in the resource map
\* (mutant: the reference key that was matched is taken out of the map, so a
\* later resource key cannot be matched with it)
KeyPartialMatchRetiresReference ==
    /\ pc = "keyPartialMatch"
    /\ \E key \in todo :
          /\ \E equivalentRefKey \in findFuzzyMatch(key, refMap) :
                /\ found' = Append(found, [key |-> key, candidates |-> DOMAIN refMap,
                                            result |-> equivalentRefKey])
                /\ IF equivalentRefKey \in DOMAIN refMap
                   THEN /\ Compare("fuzzy", key, equivalentRefKey)
                        /\ resourcesMap' = Delete(resourcesMap, key)
                        /\ refMap' = Delete(refMap, equivalentRefKey)
                   ELSE UNCHANGED <<resourcesMap, refMap, errs, calls, diffRuns,
                                    tmpDirs, tmpFiles>>
          /\ todo' = todo \ {key}
    /\ UNCHANGED <<pc, optVars, ingestVars, listVars, eMatch, endVars>>

\* (mutant: a resource key without a match is taken out of the map as well)
KeyPartialMatchDropsUnmatched ==
    /\ pc = "keyPartialMatch"
    /\ \E key \in todo :
          /\ \E equivalentRefKey \in findFuzzyMatch(key, refMap) :
                /\ found' = Append(found, [key |-> key, candidates |-> DOMAIN refMap,
                                            result |-> equivalentRefKey])
                /\ IF equivalentRefKey \in DOMAIN refMap
                   THEN /\ Compare("fuzzy", key, equivalentRefKey)
                        /\ resourcesMap' = Delete(resourcesMap, key)
                        /\ refMap' = Delete(refMap, key)
                   ELSE /\ resourcesMap' = Delete(resourcesMap, key)
                        /\ UNCHANGED <<refMap, errs, calls, diffRuns, tmpDirs, tmpFiles>>
          /\ todo' = todo \ {key}
    /\ UNCHANGED <<pc, optVars, ingestVars, listVars, eMatch, endVars>>

KeyPartialMatch ==
    /\ pc = "keyPartialMatch"
    /\ \E key \in todo :
          /\ \E equivalentRefKey \in findFuzzyMatch(key, refMap) :
                /\ found' = Append(found, [key |-> key, candidates |-> DOMAIN refMap,
                                            result |-> equivalentRefKey])
                /\ IF equivalentRefKey \in DOMAIN refMap
                   THEN /\ Compare("fuzzy", key, equivalentRefKey)
                        /\ resourcesMap' = Delete(resourcesMap, key)
                        /\ refMap' = Delete(refMap, key)
                   ELSE UNCHANGED <<resourcesMap, refMap, errs, calls, diffRuns,
                                    tmpDirs, tmpFiles>>
          /\ todo' = todo \ {key}
    /\ UNCHANGED <<pc, optVars, ingestVars, listVars, eMatch, endVars>>

PartialDone ==
    /\ pc = "keyPartialMatch"
    /\ todo = {}
    /\ pc' = "report"
    /\ UNCHANGED <<optVars, ingestVars, listVars, eMatch, matchVars, endVars>>

RECURSIVE SumLen(_, _)
SumLen(m, keys) ==
    IF keys = {} THEN 0
    ELSE LET k == CHOOSE x \in keys : TRUE
         IN Len(m[k]) + SumLen(m, keys \ {k})

DocCount(m) == SumLen(m, DOMAIN m)

\* an unused reference is an error (mutant: it never is)
runErrorNever(m) == "nil"

\* if len(refMap) > 0 { ... err := errors.New("reference CRs are not used")
runError(m) ==
    IF Cardinality(DOMAIN m) > 0 THEN "reference CRs are not used" ELSE "nil"

\* the end of run(): leftovers are written out to be logged
Report ==
    /\ pc = "report"
    /\ tmpDirs' = tmpDirs + DocCount(resourcesMap) + DocCount(refMap)
    /\ tmpFiles' = tmpFiles + DocCount(resourcesMap) + DocCount(refMap)
    /\ err' = runError(refMap)
    /\ pc' = "returned"
    /\ UNCHANGED <<optVars, ingestVars, listVars, eMatch, resourcesMap, refMap,
                   todo, errs, calls, found, diffRuns, exitCode, runE>>

\* RunE drops what run() returned
RunEReturn ==
    /\ pc = "returned"
    /\ runE' = "nil"
    /\ pc' = "done"
    /\ UNCHANGED <<optVars, ingestVars, listVars, eMatch, matchVars, err, exitCode>>

Next ==
    \/ Validate
    \/ NextDir
    \/ ReadFile
    \/ ReturnList
    \/ ShortCircuit
    \/ KeyExactMatch
    \/ ExactDone
    \/ KeyPartialMatch
    \/ PartialDone
    \/ Report
    \/ RunEReturn

Spec == Init /\ [][Next]_vars

\* ---------------------------------------------------------------- one ingestion call
IngestFiles == {F(TextA), F(TextAReordered), F(TextSecret), F(TextRbac),
                F(TextPolicy), F(TextPolicyPartial), F(TextPolicyMalformed),
                F(TextBroken), Unreadable}

\* two directories; the walk of the first may fail at its entry failAt
TwoDirs(fl, cut, failAt) ==
    <<[isDir |-> TRUE, files |-> SubSeq(fl, 1, cut), failAt |-> failAt],
      Dir(SubSeq(fl, cut + 1, Len(fl)))>>

IngestDirs ==
    UNION {UNION {{TwoDirs(fl, cut, failAt) : failAt \in 0..cut} : cut \in 0..Len(fl)} :
              fl \in SeqsUpTo(IngestFiles, MaxFiles + 1)}

InitIngest ==
    /\ pc = "readResources"
    /\ fs \in [resource : IngestDirs, reference : {<< >>}]
                \cup [resource : {<< >>}, reference : IngestDirs]
    /\ ExactMatchOnly = FALSE
    /\ Diff = "diff"
    /\ InitRest

\* the call is about to return finalList
Returning == Reading /\ f > Len(files) /\ d = Len(fs[Side])

\* the ingestion calls of run() and what run() builds from their lists
NextIngest ==
    \/ NextDir
    \/ ReadFile
    \/ ReturnList
    \/ ShortCircuit

SpecIngest == InitIngest /\ [][NextIngest]_vars

\* ---------------------------------------------------------------- run() of cmd/compare/compare.go
\* readK8sResourcesFromDir of that revision: the files of one directory, a
\* file that does not parse is left out
RECURSIVE ReadFilesOld(_)
ReadFilesOld(fl) ==
    IF fl = << >> THEN << >>
    ELSE (IF yamlToUnstructured(Head(fl)).isNil THEN << >>
          ELSE <<yamlToUnstructured(Head(fl)).Object>>) \o ReadFilesOld(Tail(fl))

RECURSIVE readK8sResourcesFromDirOld(_, _)
readK8sResourcesFromDirOld(curDir, uList) ==
    IF curDir = << >> THEN uList
    ELSE readK8sResourcesFromDirOld(Tail(curDir),
             uList \o ReadFilesOld(GetFileNames(Head(curDir))))

\* getResourceFromPolicyIfAny: every policy of the list replaced by its objects
RECURSIVE getResourceFromPolicyIfAny(_)
getResourceFromPolicyIfAny(uList) ==
    IF uList = << >> THEN << >>
    ELSE (IF GetKind(Head(uList)) = Policy
          THEN (IF PolicyConverts(Head(uList)) THEN getObjectTemplates(Head(uList))
                ELSE << >>)
          ELSE <<Head(uList)>>) \o getResourceFromPolicyIfAny(Tail(uList))

\* equalUnstructuredList: both lists become maps keyed by serialisation; the
\* maps must have the same size and every key of the second must be in the first
equalUnstructuredList(setA, setB) ==
    LET mapA == {MarshalJSON(a) : a \in Range(setA)}
        mapB == {MarshalJSON(b) : b \in Range(setB)}
    IN IF Cardinality(mapA) # Cardinality(mapB) THEN FALSE
       ELSE \A b \in mapB : b \in mapA

\* (mutant: every early exit reports success)
exitStatusAlwaysZero(equal) == 0

\* if eMatch { os.Exit(0) }; os.Exit(1)
exitStatus(equal) == IF equal THEN 0 ELSE 1

\* exhaustiveDiff of that revision: once a diff has been stored under diffB the
\* lookup temp[diffB] succeeds, so only the first pair is compared
exhaustiveDiffOld(resources, references) ==
    IF resources = << >> \/ references = << >> THEN << >>
    ELSE <<diffUnstructured(Head(resources), Head(references))>>

OldFiles == {F(TextA), F(TextAReordered), F(TextAOther), F(TextAB), F(TextBroken),
             F(TextPolicy)}

OldDirs == {Dir(fl) : fl \in SeqsUpTo(OldFiles, MaxFiles)}

InitOld ==
    /\ pc = "oldRun"
    /\ fs \in [resource : {<<dir>> : dir \in OldDirs},
               reference : {<<dir>> : dir \in OldDirs}]
    /\ ExactMatchOnly \in BOOLEAN
    /\ Diff = "diff"
    /\ InitRest

OldReadResources ==
    /\ pc = "oldRun"
    /\ uListResources' = getResourceFromPolicyIfAny(
                             readK8sResourcesFromDirOld(fs.resource, << >>))
    /\ pc' = "oldReadReference"
    /\ UNCHANGED <<optVars, ingestVars, uListReference, eMatch, matchVars, endVars>>

OldReadReference ==
    /\ pc = "oldReadReference"
    /\ uListReference' = getResourceFromPolicyIfAny(
                             readK8sResourcesFromDirOld(fs.reference, << >>))
    /\ pc' = "oldShortCircuit"
    /\ UNCHANGED <<optVars, ingestVars, uListResources, eMatch, matchVars, endVars>>

\* the short circuit, the early exit, then both maps and the shared keys
OldShortCircuit ==
    /\ pc = "oldShortCircuit"
    /\ eMatch' = equalUnstructuredList(uListResources, uListReference)
    /\ IF ExactMatchOnly
       THEN /\ pc' = "exited"
            /\ exitCode' = exitStatus(eMatch')
            /\ UNCHANGED <<resourcesMap, refMap, todo>>
       ELSE /\ pc' = "oldExact"
            /\ exitCode' = exitCode
            /\ resourcesMap' = getObjectMetaMap(uListResources)
            /\ refMap' = getObjectMetaMap(uListReference)
            /\ todo' = intersectionOfSources(getObjectMetaMap(uListResources),
                                             getObjectMetaMap(uListReference))
    /\ UNCHANGED <<optVars, ingestVars, listVars, errs, calls, found, diffRuns, tmpDirs,
                   tmpFiles, err, runE>>

\* a call of exhaustiveDiff: diffUnstructured runs the diff twice on its pair
CompareOld(phase, key, refKey) ==
    LET out == exhaustiveDiffOld(resourcesMap[key], refMap[refKey])
    IN /\ calls' = Append(calls, [phase |-> phase, key |-> key, refKey |-> refKey,
                                  resources |-> resourcesMap[key],
                                  references |-> refMap[refKey], out |-> out,
                                  runs |-> IF out = << >> THEN << >>
                                           ELSE <<PairAt(1, 1), PairAt(1, 1)>>])
       /\ diffRuns' = diffRuns + 2 * Len(out)
       /\ tmpDirs' = tmpDirs + 2 * Len(out)
       /\ UNCHANGED <<errs, tmpFiles>>

\* the loop over the shared keys: only the resource map is reduced
OldExact ==
    /\ pc = "oldExact"
    /\ \E iSrc \in todo :
          /\ CompareOld("exact", iSrc, iSrc)
          /\ resourcesMap' = Delete(resourcesMap, iSrc)
          /\ todo' = todo \ {iSrc}
          /\ found' = found
    /\ UNCHANGED <<pc, optVars, ingestVars, listVars, eMatch, refMap, endVars>>

OldExactDone ==
    /\ pc = "oldExact"
    /\ todo = {}
    /\ pc' = "oldPartial"
    /\ todo' = DOMAIN resourcesMap
    /\ UNCHANGED <<optVars, ingestVars, listVars, eMatch, resourcesMap, refMap,
                   errs, calls, found, diffRuns, tmpDirs, tmpFiles, endVars>>

\* the loop over the keys left in the resource map
OldPartial ==
    /\ pc = "oldPartial"
    /\ \E key \in todo :
          /\ \E equivalentRefKey \in findFuzzyMatch(key, refMap) :
                /\ found' = Append(found, [key |-> key, candidates |-> DOMAIN refMap,
                                            result |-> equivalentRefKey])
                /\ IF equivalentRefKey \in DOMAIN refMap
                   THEN /\ CompareOld("fuzzy", key, equivalentRefKey)
                        /\ resourcesMap' = Delete(resourcesMap, key)
                   ELSE UNCHANGED <<resourcesMap, errs, calls, diffRuns, tmpDirs,
                                    tmpFiles>>
          /\ todo' = todo \ {key}
    /\ UNCHANGED <<pc, optVars, ingestVars, listVars, eMatch, refMap, endVars>>

OldDone ==
    /\ pc = "oldPartial"
    /\ todo = {}
    /\ pc' = "oldReturned"
    /\ UNCHANGED <<optVars, ingestVars, listVars, eMatch, matchVars, endVars>>

NextOld ==
    \/ OldReadResources
    \/ OldReadReference
    \/ OldShortCircuit
    \/ OldExact
    \/ OldExactDone
    \/ OldPartial
    \/ OldDone

SpecOld == InitOld /\ [][NextOld]_vars

\* ---------------------------------------------------------------- run() after ingestion
\* a name with an underscore in it, one edit away from "ab"
TextUnder == <<Entry("apiVersion", V1), Entry("kind", Ka), Entry("name", NameUnder)>>

\* what a file with no mapping in it parses to
EmptyDocument == ParseMap(<< >>)

MatchDocs == {ParseMap(TextA), ParseMap(TextAOther), ParseMap(TextAB),
              ParseMap(TextFar), ParseMap(TextUnder), EmptyDocument}

\* the lists an ingestion call can return: no document twice
IngestedLists ==
    {l \in SeqsUpTo(MatchDocs, MaxDocs) :
        \A i, j \in 1..Len(l) : l[i] = l[j] => i = j}

InitMatch ==
    /\ pc = "shortCircuit"
    /\ fs = [resource |-> << >>, reference |-> << >>]
    /\ ExactMatchOnly = FALSE
    /\ Diff = "diff"
    /\ d = 0 /\ files = << >> /\ f = 1
    /\ removeDuplicate = EmptyMap /\ finalList = << >> /\ discovered = << >>
    /\ uListResources \in IngestedLists
    /\ uListReference \in IngestedLists
    /\ eMatch = FALSE
    /\ resourcesMap = EmptyMap /\ refMap = EmptyMap
    /\ todo = {} /\ errs = << >> /\ calls = << >> /\ found = << >>
    /\ diffRuns = 0 /\ tmpDirs = 0 /\ tmpFiles = 0
    /\ err = "none" /\ exitCode = "none" /\ runE = "none"

\* between two comparisons the program that will be run is another one (it
\* is looked up and started anew for every pair)
ToolChanges ==
    /\ pc \in {"keyExactMatch", "keyPartialMatch"}
    /\ todo # {}
    /\ Diff' \in DiffPrograms \ {Diff}
    /\ UNCHANGED <<pc, fs, ExactMatchOnly, ingestVars, listVars, eMatch, matchVars,
                   endVars>>

NextMatch ==
    \/ ToolChanges
    \/ ShortCircuit
    \/ KeyExactMatch
    \/ ExactDone
    \/ KeyPartialMatch
    \/ PartialDone
    \/ Report
    \/ RunEReturn

SpecMatch == InitMatch /\ [][NextMatch]_vars

\* ---------------------------------------------------------------- properties
\* run() went past the short circuit
Matching == pc \in {"keyExactMatch", "keyPartialMatch", "report", "returned"}
                \/ (pc = "done" /\ err # "none")

OrigResources == getObjectMetaMap(uListResources)

OrigReferences == getObjectMetaMap(uListReference)

SharedKeys == DOMAIN OrigResources \cap DOMAIN OrigReferences

CallsOf(phase, key) ==
    {i \in 1..Len(calls) : calls[i].phase = phase /\ calls[i].key = key}

Outcomes == UNION {Range(calls[i].out) : i \in 1..Len(calls)}

CountIn(list, c) == Cardinality({i \in 1..Len(list) : MarshalJSON(list[i]) = c})

Canons(list) == {MarshalJSON(list[i]) : i \in 1..Len(list)}

\* the same serialisations with the same multiplicities
SameBag(a, b) ==
    \A c \in Canons(a) \cup Canons(b) : CountIn(a, c) = CountIn(b, c)

RECURSIVE SumPairs(_)
SumPairs(keys) ==
    IF keys = {} THEN 0
    ELSE LET k == CHOOSE x \in keys : TRUE
         IN Len(OrigResources[k]) * Len(OrigReferences[k]) + SumPairs(keys \ {k})

\* C1 (as claimed): a fuzzy match takes the resource key out of the resource
\* map and the winning reference key out of the reference map, so that when
\* run() returns no matched reference key is left in the reference map.
C1_FuzzyMatchRemovesBothKeys ==
    /\ \A i \in 1..Len(calls) :
          calls[i].phase = "fuzzy" =>
              /\ calls[i].key \notin DOMAIN resourcesMap
              /\ calls[i].refKey \notin DOMAIN refMap
    /\ pc = "returned" =>
          \A i \in 1..Len(calls) : calls[i].refKey \notin DOMAIN refMap

\* C2: run() returns an error exactly when a reference document is left in
\* the reference map; leftover resource documents alone give no error.
C2_ErrorIffReferenceLeft ==
    pc = "returned" => ((err # "nil") <=> (DocCount(refMap) > 0))

C2_Witness ==
    /\ pc = "returned"
    /\ DocCount(resourcesMap) > 0
    /\ DocCount(refMap) = 0
    /\ err = "nil"

\* C3 (as claimed): a command whose run leaves reference documents unused
\* returns an error from RunE, and returns nil only when none is left.
C3_LeftoverReferenceFailsCommand ==
    (pc = "done" /\ err # "none") =>
        ((runE = "error") <=> (DocCount(refMap) > 0))

\* C4 (as claimed): the whole-set check answers true exactly when the two
\* lists hold the same serialisations with the same multiplicities, whatever
\* the order of the lists.
C4_WholeSetEqualIffSameMultiset ==
    pc \in {"exited", "oldExact", "oldPartial", "oldReturned"} =>
        (eMatch <=> SameBag(uListResources, uListReference))

\* C5: when the two ingested lists hold the same serialisations with the same
\* multiplicities, run() exits with status 0 at the short circuit: no map is
\* built or consumed, no key is matched and nothing is diffed.
C5_EqualSetsExitEarly ==
    (pc \in {"exited"} \/ Matching) /\ SameBag(uListResources, uListReference) =>
        /\ pc = "exited"
        /\ exitCode = 0
        /\ calls = << >> /\ errs = << >>
        /\ resourcesMap = EmptyMap /\ refMap = EmptyMap
        /\ tmpDirs = 0

C5_Witness ==
    /\ pc = "exited"
    /\ Len(uListResources) = 2
    /\ uListResources # uListReference

C7_ExactPhase ==
    /\ pc = "keyExactMatch" =>
          /\ todo \subseteq SharedKeys
          /\ \A k \in todo :
                /\ k \in DOMAIN resourcesMap /\ k \in DOMAIN refMap
                /\ CallsOf("exact", k) = {}
          /\ \A k \in SharedKeys \ todo :
                /\ k \notin DOMAIN resourcesMap /\ k \notin DOMAIN refMap
          /\ \A k \in DOMAIN OrigResources \ SharedKeys :
                k \in DOMAIN resourcesMap /\ resourcesMap[k] = OrigResources[k]
          /\ \A k \in DOMAIN OrigReferences \ SharedKeys :
                k \in DOMAIN refMap /\ refMap[k] = OrigReferences[k]
    /\ Matching =>
          \A k \in SharedKeys \ (IF pc = "keyExactMatch" THEN todo ELSE {}) :
              /\ Cardinality(CallsOf("exact", k)) = 1
              /\ \A i \in CallsOf("exact", k) :
                    /\ calls[i].refKey = k
                    /\ calls[i].resources = OrigResources[k]
                    /\ calls[i].references = OrigReferences[k]
    /\ (Matching /\ pc # "keyExactMatch") =>
          DOMAIN resourcesMap \cap DOMAIN refMap = {}

C7_Witness ==
    /\ pc = "keyPartialMatch"
    /\ calls # << >>
    /\ DOMAIN OrigResources \ SharedKeys # {}
    /\ DOMAIN OrigReferences \ SharedKeys # {}
    /\ todo = DOMAIN resourcesMap

FirstOfItsForm(i) ==
    \A j \in 1..(i - 1) :
        MarshalJSON(discovered[j].doc) # MarshalJSON(discovered[i].doc)

RECURSIVE KeptUpTo(_)
KeptUpTo(n) ==
    IF n = 0 THEN << >>
    ELSE KeptUpTo(n - 1)
           \o (IF FirstOfItsForm(n) /\ ~Excluded(discovered[n].doc)
               THEN <<discovered[n].doc>> ELSE << >>)

DedupIndexIsFirstPath ==
    /\ DOMAIN removeDuplicate
           = {MarshalJSON(discovered[i].doc) : i \in 1..Len(discovered)}
    /\ \A i \in 1..Len(discovered) :
          FirstOfItsForm(i) =>
              removeDuplicate[MarshalJSON(discovered[i].doc)] = discovered[i].file

\* C10 (as claimed): of the documents one call discovers with the same
\* serialisation exactly one is in the list the call returns; the index maps
\* the serialisation to the first file that produced it.
C10_ExactlyOneRetained ==
    Reading =>
        /\ \A i, j \in 1..Len(discovered) :
              (i < j /\ MarshalJSON(discovered[i].doc) = MarshalJSON(discovered[j].doc))
                  => CountIn(finalList, MarshalJSON(discovered[i].doc)) = 1
        /\ DedupIndexIsFirstPath

\* C10 (amended): of the documents one call discovers with the same
\* serialisation the first discovered is in the returned list, once, unless it
\* is on the exclusion list, and then none is; the list is the first
\* occurrences in discovery order, no two entries share a serialisation, and
\* the index maps every serialisation to the first file that produced it.
C10_FirstRetainedUnlessExcluded ==
    Reading =>
        /\ finalList = KeptUpTo(Len(discovered))
        /\ \A i \in 1..Len(discovered) :
              CountIn(finalList, MarshalJSON(discovered[i].doc))
                  = (IF Excluded(discovered[i].doc) THEN 0 ELSE 1)
        /\ \A i, j \in 1..Len(finalList) :
              MarshalJSON(finalList[i]) = MarshalJSON(finalList[j]) => i = j
        /\ DedupIndexIsFirstPath

C10_Witness ==
    /\ Returning
    /\ Len(finalList) >= 1
    /\ \E i, j \in 1..Len(discovered) :
          /\ i < j
          /\ discovered[i].file # discovered[j].file
          /\ discovered[i].file[1] # discovered[j].file[1]
          /\ MarshalJSON(discovered[i].doc) = MarshalJSON(discovered[j].doc)
          /\ ~Excluded(discovered[i].doc)
          /\ GetKind(ParseMap(fs[Side][2].files[discovered[j].file[2]].text)) = Policy

MapDocs(m) == UNION {Range(m[k]) : k \in DOMAIN m}

FilesOf(side) == UNION {Range(fs[side][i].files) : i \in 1..Len(fs[side])}

\* C11: no document on the exclusion list is in an ingested list or in an
\* identity map, whether it came straight from a file or out of a policy; a
\* document that is not on the list and was not dropped as a duplicate is in
\* the ingested list and, once the maps are built, under its key in its map.
C11_ExcludedNeverIngested ==
    /\ \A doc \in Range(finalList) \cup Range(uListResources)
                 \cup Range(uListReference) \cup MapDocs(resourcesMap)
                 \cup MapDocs(refMap) : ~Excluded(doc)
    /\ Reading =>
          \A i \in 1..Len(discovered) :
              ~Excluded(discovered[i].doc) => discovered[i].doc \in Range(finalList)
    /\ pc = "keyExactMatch" =>
          /\ \A doc \in Range(uListResources) :
                /\ unstructuredToObjMeta(doc) \in DOMAIN resourcesMap
                /\ doc \in Range(resourcesMap[unstructuredToObjMeta(doc)])
          /\ \A doc \in Range(uListReference) :
                /\ unstructuredToObjMeta(doc) \in DOMAIN refMap
                /\ doc \in Range(refMap[unstructuredToObjMeta(doc)])

C11_Witness ==
    /\ pc = "keyExactMatch"
    /\ F(TextSecret) \in FilesOf("reference")
    /\ F(TextPolicy) \in FilesOf("reference")
    /\ DocCount(refMap) = 1

\* the files the running ingestion call has read so far, as <<directory, index>>
FilesRead ==
    {p \in (1..d) \X (1..(MaxFiles + 1)) :
        /\ p[2] <= Len(GetFileNames(fs[Side][p[1]]))
        /\ (p[1] < d \/ p[2] < f)}

FileAt(p) == GetFileNames(fs[Side][p[1]])[p[2]]

\* what the unwrapper yielded for one file, in the order it yielded it
RECURSIVE YieldedUpTo(_, _)
YieldedUpTo(p, n) ==
    IF n = 0 THEN << >>
    ELSE YieldedUpTo(p, n - 1)
           \o (IF discovered[n].file = p THEN <<discovered[n].doc>> ELSE << >>)

Yielded(p) == YieldedUpTo(p, Len(discovered))

\* positions <<policy template, object template>> whose payload converts
Convertible(policy) ==
    {q \in (1..Len(policy.templates)) \X (1..3) :
        /\ q[2] <= Len(policy.templates[q[1]].objs)
        /\ policy.templates[q[1]].ok
        /\ policy.templates[q[1]].objs[q[2]].ok
        /\ ~ParseFails(policy.templates[q[1]].objs[q[2]].raw)}

Before(q, r) == q[1] < r[1] \/ (q[1] = r[1] /\ q[2] < r[2])

\* out holds the payloads at the given positions, each once, in template order
PayloadsInOrder(out, policy, positions) ==
    /\ Len(out) = Cardinality(positions)
    /\ \E g \in [1..Len(out) -> positions] :
          /\ \A i, j \in 1..Len(out) : i < j => Before(g[i], g[j])
          /\ \A i \in 1..Len(out) :
                out[i] = ParseMap(policy.templates[g[i][1]].objs[g[i][2]].raw)

\* C12: a Policy that converts yields its convertible embedded payloads, each
\* once and in template order, and never itself; a document of any other kind
\* yields itself, unchanged, and nothing else.
C12_PolicyUnwrapping ==
    Reading =>
        \A p \in FilesRead :
            LET doc == yamlToUnstructured(FileAt(p)).Object
            IN IF GetKind(doc) = Policy
               THEN /\ doc \notin Range(Yielded(p))
                    /\ PolicyConverts(doc) =>
                          PayloadsInOrder(Yielded(p), doc, Convertible(doc))
               ELSE Yielded(p) = <<doc>>

C12_Witness ==
    /\ Returning
    /\ \E p, q \in FilesRead :
          /\ FileAt(p) = F(TextPolicy)
          /\ Yielded(p) = <<ParseMap(TextA), ParseMap(TextSecret)>>
          /\ FileAt(q) = F(TextAReordered)
          /\ Yielded(q) = <<ParseMap(TextA)>>

\* C13 (as claimed): a file that does not parse is skipped and is never fatal:
\* ingestion goes on with the next file and the run does not stop there.
C13_ParseFailureNeverFatal ==
    /\ pc # "panic"
    /\ (Reading /\ f > 1) =>
          \A i \in 1..(f - 1) :
              yamlToUnstructured(files[i]).isNil =>
                  \A n \in 1..Len(discovered) : discovered[n].file # <<d, i>>

\* similarity of the two key strings, as findFuzzyMatch computes it
Similar(k, r) == ClearsThreshold(KeyString(k), KeyString(r))

Closer(k, r, t) == SimGeq(KeyString(k), KeyString(r), KeyString(t))

\* C14 (as claimed): findFuzzyMatch returns a key of the reference map whose
\* string clears the threshold and is at least as similar as every other
\* one, whenever some key of the map clears it, and never returns a key of
\* the map below the threshold.
C14_BestCandidateReturned ==
    \A n \in 1..Len(found) :
        LET c == found[n]
        IN /\ (\E r \in c.candidates : Similar(c.key, r)) =>
                 /\ c.result \in c.candidates
                 /\ Similar(c.key, c.result)
                 /\ \A t \in c.candidates :
                       Similar(c.key, t) => Closer(c.key, c.result, t)
           /\ c.result \in c.candidates => Similar(c.key, c.result)

RunEnded == pc \in {"report", "returned"} \/ (pc = "done" /\ err # "none")

\* the reference keys the fuzzy phase starts with
FuzzyCandidates == DOMAIN OrigReferences \ SharedKeys

\* C15 (as claimed): at the end of run() a resource key is still in the
\* resource map exactly when the reference map had no equal key and no
\* reference key left for the fuzzy phase is similar enough; a search in which
\* no candidate clears the threshold leads to no diff and leaves the key.
C15_UnmatchedIffNoCandidate ==
    /\ RunEnded =>
          \A k \in DOMAIN OrigResources :
              k \in DOMAIN resourcesMap <=>
                  /\ k \notin DOMAIN OrigReferences
                  /\ \A r \in FuzzyCandidates : ~Similar(k, r)
    /\ \A n \in 1..Len(found) :
          (\A r \in found[n].candidates : ~Similar(found[n].key, r)) =>
              /\ CallsOf("fuzzy", found[n].key) = {}
              /\ found[n].key \in DOMAIN resourcesMap

\* one reference document, and as the only resource the same document with
\* its keys written in another order
Scenario1 ==
    /\ Len(fs.reference) = 1 /\ fs.reference[1] = Dir(<<F(TextA)>>)
    /\ Len(fs.resource) = 1 /\ fs.resource[1] = Dir(<<F(TextAReordered)>>)

PastShortCircuit == pc = "exited" \/ Matching

\* C16 (as claimed): in scenario 1 the whole-set check is false, the two
\* documents are matched by their equal key and the diff of the pair reports
\* identical.
C16_ReorderedKeysReachExactPhase ==
    (Scenario1 /\ PastShortCircuit) =>
        /\ ~eMatch
        /\ pc # "exited"
        /\ RunEnded =>
              /\ Len(calls) = 1
              /\ calls[1].phase = "exact"
              /\ Len(calls[1].out) = 1
              /\ calls[1].out[1].err = "nil"

\* C16 (amended): in scenario 1 both files parse to the same document, the
\* whole-set check is true and run() exits with status 0 at the short
\* circuit: no key is matched and no diff runs; a diff of the pair would
\* report identical.
C16_ReorderedKeysExitEarly ==
    (Scenario1 /\ PastShortCircuit) =>
        /\ eMatch
        /\ pc = "exited" /\ exitCode = 0
        /\ calls = << >> /\ found = << >> /\ diffRuns = 0
        /\ Len(uListResources) = 1 /\ Len(uListReference) = 1
        /\ diffUnstructured(uListResources[1], uListReference[1]).err = "nil"

C16_Witness == Scenario1 /\ pc = "exited" /\ eMatch

\* C17 (as claimed): a file that cannot be read yields no document: nothing
\* of it is in the ingested list, in the dedup index or in an identity map,
\* and no empty document with the empty key comes of it.
C17_UnreadableFileContributesNothing ==
    /\ Reading =>
          \A p \in FilesRead :
              ~FileAt(p).readable =>
                  /\ Yielded(p) = << >>
                  /\ \A c \in DOMAIN removeDuplicate : removeDuplicate[c] # p
    /\ EmptyDocument \notin Range(finalList) \cup Range(uListResources)
                                \cup Range(uListReference)
    /\ NilObjMetadata \notin DOMAIN resourcesMap \cup DOMAIN refMap

\* C18 (as claimed): every exact call comes before every fuzzy search, the
\* fuzzy phase sees no reference key the exact phase consumed, and over the
\* whole run no reference key is handed to exhaustiveDiff for two resource keys.
C18_ReferenceKeyDiffedOnce ==
    /\ found # << >> =>
          /\ pc # "keyExactMatch"
          /\ \A k \in SharedKeys : Cardinality(CallsOf("exact", k)) = 1
    /\ \A i, j \in 1..Len(calls) :
          (i < j /\ calls[i].phase = "fuzzy") => calls[j].phase = "fuzzy"
    /\ \A n \in 1..Len(found) : found[n].candidates \cap SharedKeys = {}
    /\ \A i, j \in 1..Len(calls) :
          calls[i].refKey = calls[j].refKey => calls[i].key = calls[j].key

\* C19 (as claimed): when a comparison is over, and when run() is over, no
\* scratch directory and no scratch file made during the run still exists.
C19_NoScratchLeft == tmpDirs = 0 /\ tmpFiles = 0

\* the documents of a list that have identity key k, in the order of the list
RECURSIVE WithKey(_, _)
WithKey(list, k) ==
    IF list = << >> THEN << >>
    ELSE (IF unstructuredToObjMeta(Head(list)) = k THEN <<Head(list)>> ELSE << >>)
             \o WithKey(Tail(list), k)

KeysOf(list) == {unstructuredToObjMeta(list[i]) : i \in 1..Len(list)}

\* m holds, under each of its keys, all documents of the list with that key
PartOf(m, list) ==
    /\ DOMAIN m \subseteq KeysOf(list)
    /\ \A k \in DOMAIN m : m[k] = WithKey(list, k) /\ m[k] # << >>

\* C20: the map built from a list has exactly the keys of its documents and
\* under each key all documents with that key, each once, in list order,
\* alike or not; through both phases every key still present keeps its whole,
\* non-empty list.
C20_MapPartitionsByKey ==
    /\ (pc = "keyExactMatch" /\ calls = << >>) =>
          /\ DOMAIN resourcesMap = KeysOf(uListResources)
          /\ DOMAIN refMap = KeysOf(uListReference)
          /\ DocCount(resourcesMap) = Len(uListResources)
          /\ DocCount(refMap) = Len(uListReference)
    /\ Matching =>
          /\ PartOf(resourcesMap, uListResources)
          /\ PartOf(refMap, uListReference)

C20_Witness ==
    /\ pc = "keyPartialMatch"
    /\ \E k \in DOMAIN resourcesMap :
          /\ Len(resourcesMap[k]) = 2
          /\ resourcesMap[k][1] # resourcesMap[k][2]
          /\ resourcesMap[k] = uListResources
    /\ DOMAIN refMap # {}

\* place of a convertible position among the convertible positions
Rank(policy, q) == 1 + Cardinality({r \in Convertible(policy) : Before(r, q)})

PayloadAt(policy, q) == ParseMap(policy.templates[q[1]].objs[q[2]].raw)

\* C21: a Policy that does not convert yields nothing, not even itself; in a
\* Policy that converts, a policy template or object template that does not
\* convert is left out alone, and the payloads that convert are yielded in
\* their original order.
C21_PolicyConversionFailures ==
    Reading =>
        \A p \in FilesRead :
            LET doc == yamlToUnstructured(FileAt(p)).Object
            IN GetKind(doc) = Policy =>
                  IF PolicyConverts(doc)
                  THEN /\ Len(Yielded(p)) = Cardinality(Convertible(doc))
                       /\ \A q \in Convertible(doc) :
                             Yielded(p)[Rank(doc, q)] = PayloadAt(doc, q)
                  ELSE Yielded(p) = << >>

C21_Witness ==
    /\ Returning
    /\ \E p, q \in FilesRead :
          /\ FileAt(p) = F(TextPolicyPartial)
          /\ Yielded(p) = <<ParseMap(TextAOther), ParseMap(TextA)>>
          /\ FileAt(q) = F(TextPolicyMalformed)
          /\ Yielded(q) = << >>

\* what the program did for a recorded pair
Truth(o) ==
    IF o.prog # "diff" THEN "diff tool failure"
    ELSE IF yamlMarshal(o.res) = yamlMarshal(o.ref) THEN "identical" ELSE "differs"

\* C22 (as claimed): the outcome recorded for a pair tells identical, differs
\* and diff tool failure apart: two pairs with different ones of the three
\* never have the same recorded outcome.
C22_ToolFailureDistinctFromDiffers ==
    \A o1, o2 \in Outcomes : Truth(o1) # Truth(o2) => o1.err # o2.err

\* how often the diff program was started on the pair (a, b) in a call
TimesRun(call, a, b) ==
    Cardinality({j \in 1..Len(call.runs) : call.runs[j] = <<a, b>>})

\* C23 (as claimed): in every call of exhaustiveDiff the diff program is started
\* exactly once on each (resource, reference) pair, |resources| x |references|
\* times in all.
C23_EachPairDiffedOnce ==
    /\ \A i \in 1..Len(calls) :
          /\ Len(calls[i].runs) = Len(calls[i].resources) * Len(calls[i].references)
          /\ \A a \in 1..Len(calls[i].resources) :
                \A b \in 1..Len(calls[i].references) : TimesRun(calls[i], a, b) = 1
    /\ diffRuns = SumLen([i \in 1..Len(calls) |-> calls[i].runs], 1..Len(calls))

\* the directories of the side being read whose enumeration failed
FailedDirs == {k \in 1..Len(fs[Side]) : fs[Side][k].failAt # 0}

\* every file read so far in a directory that was enumerated in full has
\* yielded its documents
OtherDirectoriesIngested ==
    \A p \in FilesRead :
        p[1] \notin FailedDirs =>
            Yielded(p) = getResourcesFromPolicyIfAny(yamlToUnstructured(FileAt(p)).Object)

\* C24 (as claimed): when the enumeration of a directory fails, nothing of that
\* directory is ingested, the files walked before the failure included, and the
\* other directories are still ingested.
C24_FailedDirectoryContributesNothing ==
    Reading =>
        /\ \A i \in 1..Len(discovered) : discovered[i].file[1] \notin FailedDirs
        /\ \A c \in DOMAIN removeDuplicate : removeDuplicate[c][1] \notin FailedDirs
        /\ OtherDirectoriesIngested

\* the documents the files of one side hold, policies unwrapped
SideDocs(side) ==
    UNION {Range(getResourcesFromPolicyIfAny(yamlToUnstructured(fl).Object)) :
              fl \in {x \in FilesOf(side) : ~yamlToUnstructured(x).isNil}}

\* every document of a side that is not excluded is in the list ingested for
\* that side, in its canonical form
IngestedInFull(side, uList) ==
    \A doc \in SideDocs(side) :
        ~Excluded(doc) => \E i \in 1..Len(uList) : MarshalJSON(uList[i]) = MarshalJSON(doc)

\* C25: the index of duplicates is made anew by each ingestion call: the call
\* for the reference side starts with an empty index, each side's list holds
\* every document of that side whatever the other side holds, and equal
\* directories give equal lists.
C25_DedupIndexIsLocal ==
    /\ (Reading /\ d = 0) => removeDuplicate = EmptyMap
    /\ Reading => \A c \in DOMAIN removeDuplicate :
                      \E i \in 1..Len(discovered) :
                          /\ MarshalJSON(discovered[i].doc) = c
                          /\ discovered[i].file = removeDuplicate[c]
    /\ pc = "shortCircuit" =>
          /\ IngestedInFull("resource", uListResources)
          /\ IngestedInFull("reference", uListReference)
          /\ fs.resource = fs.reference => uListResources = uListReference

C25_Witness ==
    /\ pc = "shortCircuit"
    /\ fs.resource = fs.reference
    /\ Len(uListResources) = 2
    /\ uListReference = uListResources

\* the calls of exhaustiveDiff made for a resource key
CallsWith(k) == {i \in 1..Len(calls) : calls[i].key = k}

\* the call compared every document of the resource key with every document
\* of one reference key
ComparedWithWholeKey(call, k) ==
    /\ call.resources = OrigResources[k]
    /\ call.refKey \in DOMAIN OrigReferences
    /\ call.references = OrigReferences[call.refKey]
    /\ \A a \in 1..Len(call.resources) : \A b \in 1..Len(call.references) :
          \E j \in 1..Len(call.out) :
              call.out[j].res = call.resources[a] /\ call.out[j].ref = call.references[b]

\* C26: from the moment the resource map is built to the end of run(), every
\* key of it is either still in the map with all its documents and was never
\* compared, or is out of the map and was compared, in one call, with every
\* document of one reference key; at the end no key is left to visit.
C26_ResourceDocumentsConserved ==
    Matching =>
        /\ DOMAIN resourcesMap \subseteq DOMAIN OrigResources
        /\ \A i \in 1..Len(calls) : calls[i].key \in DOMAIN OrigResources
        /\ \A k \in DOMAIN OrigResources :
              IF k \in DOMAIN resourcesMap
              THEN resourcesMap[k] = OrigResources[k] /\ CallsWith(k) = {}
              ELSE /\ Cardinality(CallsWith(k)) = 1
                   /\ \A i \in CallsWith(k) : ComparedWithWholeKey(calls[i], k)
        /\ RunEnded => todo = {}

C26_Witness ==
    /\ pc = "returned"
    /\ DOMAIN resourcesMap # {}
    /\ \E i \in 1..Len(calls) :
          calls[i].phase = "fuzzy" /\ calls[i].key \notin DOMAIN resourcesMap

\* the resource keys the fuzzy phase visits
FuzzyKeys == DOMAIN OrigResources \ SharedKeys

\* the reference map as the exact phase leaves it
RefAfterExact == [r \in FuzzyCandidates |-> OrigReferences[r]]

\* no two reference keys are at the top similarity to one resource key
NoTie ==
    \A k \in FuzzyKeys :
        Cardinality(FuzzySearchTop(KeyString(k),
                                   {KeyString(r) : r \in FuzzyCandidates})) = 1

ExpectedMatch(k) == CHOOSE r \in findFuzzyMatch(k, RefAfterExact) : TRUE

ExpectedPairs ==
    {<<k, k>> : k \in SharedKeys}
        \cup {<<k, ExpectedMatch(k)>> :
                 k \in {x \in FuzzyKeys : ExpectedMatch(x) \in FuzzyCandidates}}

DiffedPairs == {<<calls[i].key, calls[i].refKey>> : i \in 1..Len(calls)}

\* C27: when no two reference keys tie for a resource key, what run() ends
\* with is a function of the two maps it built, whatever the order in which
\* the two phases visited the keys: the pairs of keys compared, the resource
\* map, the reference map and the error returned.
C27_SameResultInEveryOrder ==
    (pc = "returned" /\ NoTie) =>
        /\ DiffedPairs = ExpectedPairs
        /\ resourcesMap = [k \in DOMAIN OrigResources \ {p[1] : p \in ExpectedPairs} |->
                              OrigResources[k]]
        /\ refMap = RefAfterExact
        /\ err = runError(RefAfterExact)

C27_Witness ==
    /\ pc = "returned"
    /\ NoTie
    /\ Cardinality(FuzzyKeys) = 2
    /\ \E i \in 1..Len(calls) : calls[i].phase = "fuzzy"
    /\ DOMAIN resourcesMap # {}

====
